---- MODULE Spec2Model ----
(***************************************************************************)
(* The DNS-over-HTTPS responder of src/responder/src/main.rs.              *)
(*                                                                         *)
(* One Lambda instance serves one request at a time.  `respond` is         *)
(* modelled in the steps its control flow has: the decoding of the request *)
(* (method dispatch, message_from_get / message_from_post), the denylist   *)
(* filter, the awaited upstream lookup and the serialization.              *)
(*                                                                         *)
(* Text is a sequence of Unicode code points; Utf8Width gives the number   *)
(* of bytes a code point takes in a Rust String.  Octets are 0..255.       *)
(* An Option is a sequence of length 0 (None) or 1 (Some).                 *)
(***************************************************************************)
EXTENDS Integers, Sequences, FiniteSets, TLC

\* ------------------------------------------------------------------ bounds

\* Largest transaction id of a generated message.
MaxId == 1
\* Largest number of entries in a generated question section.
MaxQuestions == 2
\* Largest number of labels in the name of a generated question.
MaxLabels == 2
\* Largest number of records the upstream resolver returns.
MaxRecords == 2

\* ------------------------------------------------------------- text, names

\* '.', the label separator and the root label's rendering.
DOT == 46

\* Code points used in labels: 'a' (one byte in UTF-8) and U+00E9 (two bytes),
\* the latter being what to_utf8 renders for the IDNA label "xn--9ca".
LabelChars == {97, 233}

Utf8Width(c) == IF c < 128 THEN 1 ELSE 2

RECURSIVE Utf8Len(_)
\* String::len: the length in bytes.
Utf8Len(s) == IF s = <<>> THEN 0 ELSE Utf8Width(Head(s)) + Utf8Len(Tail(s))

\* str::chars().count(): the length in code points.
CharsCount(s) == Len(s)

\* Byte offset at which the k-th code point (1-based) of s starts.
ByteOffset(s, k) == Utf8Len(SubSeq(s, 1, k - 1))

\* String::remove(idx): idx is a BYTE index.  It panics when idx is past the
\* end or not on a char boundary; otherwise the char starting there goes.
StringRemove(s, idx) ==
    LET ks == {k \in 1..Len(s) : ByteOffset(s, k) = idx}
    IN  IF ks = {}
        THEN [panic |-> TRUE, str |-> s]
        ELSE LET k == CHOOSE x \in ks : TRUE
             IN  [panic |-> FALSE,
                  str |-> SubSeq(s, 1, k - 1) \o SubSeq(s, k + 1, Len(s))]

RECURSIVE to_utf8(_)
\* Name::to_utf8 of a name read from the wire (always fully qualified): each
\* label followed by '.', the root name alone being ".".
to_utf8(name) ==
    IF name = <<>> THEN <<DOT>>
    ELSE IF Len(name) = 1 THEN Head(name) \o <<DOT>>
    ELSE Head(name) \o <<DOT>> \o to_utf8(Tail(name))

RECURSIVE SeqsUpTo(_, _)
\* All sequences over S of length at most n.
SeqsUpTo(S, n) ==
    IF n = 0 THEN {<<>>}
    ELSE LET shorter == SeqsUpTo(S, n - 1)
         IN  shorter \cup {Append(s, x) : s \in shorter, x \in S}

\* The labels and names of generated questions: the root, "a.", "xn--9ca." and
\* the longer names made of these labels.
Labels == {<<c>> : c \in LabelChars}

Names == SeqsUpTo(Labels, MaxLabels)

\* Query types A and AAAA.
QueryTypes == {1, 28}

Queries == [name : Names, query_type : QueryTypes]

\* What a further entry of the question section may be.
ExtraQueries == { [name |-> << <<97>> >>, query_type |-> 1] }

\* Resource records, each standing for one encoded record.
Records == {10, 20}

QuestionSections ==
    {<<>>} \cup
    {<<q>> \o rest : q \in Queries, rest \in SeqsUpTo(ExtraQueries, MaxQuestions - 1)}

\* Header contents of generated messages: the QR bit, the recursion-available
\* bit and the response code, each set or not.
HeaderKinds ==
    [message_type : {"Query", "Response"}, recursion_available : BOOLEAN,
     response_code : {"NoError", "ServFail", "NXDomain"}]

\* The answer sections of generated requests.
RequestAnswers == {<<>>, <<10>>}

Messages ==
    { [id |-> i, message_type |-> h.message_type,
       recursion_available |-> h.recursion_available,
       response_code |-> h.response_code, queries |-> qs, answers |-> an] :
      i \in 0..MaxId, h \in HeaderKinds, qs \in QuestionSections, an \in RequestAnswers }

\* -------------------------------------------------------------- wire format

\* The numeric value of a response code in the header.
RcodeNum(rc) ==
    CASE rc = "NoError" -> 0
      [] rc = "ServFail" -> 2
      [] rc = "NXDomain" -> 3
      [] OTHER -> 15

RcodeOf(n) ==
    CASE n = 0 -> "NoError"
      [] n = 2 -> "ServFail"
      [] n = 3 -> "NXDomain"
      [] OTHER -> "Unknown"

RECURSIVE EmitName(_)
\* A name on the wire: each label preceded by its length, then the root label.
EmitName(name) ==
    IF name = <<>> THEN <<0>>
    ELSE <<Len(Head(name))>> \o Head(name) \o EmitName(Tail(name))

EmitQuery(q) == EmitName(q.name) \o <<q.query_type>>

RECURSIVE EmitQueries(_)
EmitQueries(qs) ==
    IF qs = <<>> THEN <<>> ELSE EmitQuery(Head(qs)) \o EmitQueries(Tail(qs))

\* Message::to_bytes.  The header is the id, the octet holding the QR bit, the
\* octet holding the RA bit and the response code, and the question and answer
\* counts; the questions and the answer records follow.
to_bytes(m) ==
    << m.id,
       IF m.message_type = "Response" THEN 128 ELSE 0,
       (IF m.recursion_available THEN 128 ELSE 0) + RcodeNum(m.response_code),
       Len(m.queries),
       Len(m.answers) >>
    \o EmitQueries(m.queries) \o m.answers

RECURSIVE ParseName(_, _)
ParseName(b, pos) ==
    IF pos > Len(b) THEN [ok |-> FALSE, name |-> <<>>, next |-> pos]
    ELSE IF b[pos] = 0 THEN [ok |-> TRUE, name |-> <<>>, next |-> pos + 1]
    ELSE IF b[pos] > 63 \/ pos + b[pos] > Len(b)
         THEN [ok |-> FALSE, name |-> <<>>, next |-> pos]
    ELSE LET rest == ParseName(b, pos + b[pos] + 1)
         IN  [ok |-> rest.ok,
              name |-> << SubSeq(b, pos + 1, pos + b[pos]) >> \o rest.name,
              next |-> rest.next]

RECURSIVE ParseQueries(_, _, _)
ParseQueries(b, pos, n) ==
    IF n = 0 THEN [ok |-> TRUE, queries |-> <<>>, next |-> pos]
    ELSE LET nm == ParseName(b, pos)
         IN  IF ~nm.ok \/ nm.next > Len(b)
             THEN [ok |-> FALSE, queries |-> <<>>, next |-> pos]
             ELSE LET rest == ParseQueries(b, nm.next + 1, n - 1)
                  IN  [ok |-> rest.ok,
                       queries |-> << [name |-> nm.name, query_type |-> b[nm.next]] >>
                                   \o rest.queries,
                       next |-> rest.next]

\* Message::from_bytes: Ok with the message, or Err.
from_bytes(b) ==
    IF Len(b) < 5 THEN [ok |-> FALSE]
    ELSE LET qs == ParseQueries(b, 6, b[4])
         IN  IF ~qs.ok \/ qs.next + b[5] - 1 > Len(b) THEN [ok |-> FALSE]
             ELSE [ok |-> TRUE,
                   message |->
                     [id |-> b[1],
                      message_type |-> IF b[2] >= 128 THEN "Response" ELSE "Query",
                      recursion_available |-> b[3] >= 128,
                      response_code |-> RcodeOf(b[3] % 16),
                      queries |-> qs.queries,
                      answers |-> SubSeq(b, qs.next, qs.next + b[5] - 1)]]

\* ---------------------------------------------------------------- base64url

\* A character of the dns parameter is its value in the base64url alphabet,
\* 0..63, or NotBase64 for a character outside the alphabet.
NotBase64 == 64

RECURSIVE base64_url_encode(_)
\* base64_url::encode: three octets to four characters, no padding.
base64_url_encode(bs) ==
    IF bs = <<>> THEN <<>>
    ELSE IF Len(bs) = 1 THEN << bs[1] \div 4, (bs[1] % 4) * 16 >>
    ELSE IF Len(bs) = 2
         THEN << bs[1] \div 4, (bs[1] % 4) * 16 + bs[2] \div 16, (bs[2] % 16) * 4 >>
    ELSE << bs[1] \div 4, (bs[1] % 4) * 16 + bs[2] \div 16,
            (bs[2] % 16) * 4 + bs[3] \div 64, bs[3] % 64 >>
         \o base64_url_encode(SubSeq(bs, 4, Len(bs)))

RECURSIVE Base64Octets(_)
Base64Octets(cs) ==
    IF Len(cs) < 2 THEN <<>>
    ELSE IF Len(cs) = 2 THEN << cs[1] * 4 + cs[2] \div 16 >>
    ELSE IF Len(cs) = 3
         THEN << cs[1] * 4 + cs[2] \div 16, (cs[2] % 16) * 16 + cs[3] \div 4 >>
    ELSE << cs[1] * 4 + cs[2] \div 16, (cs[2] % 16) * 16 + cs[3] \div 4,
            (cs[3] % 4) * 64 + cs[4] >>
         \o Base64Octets(SubSeq(cs, 5, Len(cs)))

\* base64_url::decode: Err on a character outside the alphabet or on a length
\* that no encoding has.
base64_url_decode(cs) ==
    IF (\E i \in 1..Len(cs) : cs[i] \notin 0..63) \/ Len(cs) % 4 = 1
    THEN [ok |-> FALSE, payload |-> <<>>]
    ELSE [ok |-> TRUE, payload |-> Base64Octets(cs)]

\* ------------------------------------------------------------------ requests

EmptyBody == [kind |-> "Empty", text |-> "", bytes |-> <<>>]
TextBody(t) == [kind |-> "Text", text |-> t, bytes |-> <<>>]
BinaryBody(b) == [kind |-> "Binary", text |-> "", bytes |-> b]

\* Payloads no message parses from: a cut header, and a header announcing a
\* question that does not follow.
BrokenPayloads == { <<7>>, <<0, 0, 0, 1, 0>> }

Payloads == {to_bytes(m) : m \in Messages} \cup BrokenPayloads

\* Values of the dns parameter that are not base64url: a character outside the
\* alphabet, and a single character.
BrokenDnsValues == { <<NotBase64>>, <<0>> }

\* A request: its method, whether its URI is absolute (Url::parse fails on a
\* relative one), the value of its dns query parameter and its body.
PostRequests ==
    { [method |-> "POST", uri_absolute |-> TRUE, dns |-> <<>>, body |-> b] :
      b \in {BinaryBody(p) : p \in Payloads} \cup {EmptyBody, TextBody("text")} }

GetRequests ==
    { [method |-> "GET", uri_absolute |-> TRUE, dns |-> d, body |-> EmptyBody] :
      d \in {<<>>} \cup {<<v>> : v \in BrokenDnsValues}
             \cup {<<base64_url_encode(p)>> : p \in Payloads} }
    \cup
    { [method |-> "GET", uri_absolute |-> FALSE, dns |-> d, body |-> EmptyBody] :
      d \in {<<>>} \cup {<<v>> : v \in BrokenDnsValues}
             \cup {<<base64_url_encode(p)>> : p \in BrokenPayloads} }

OtherRequests ==
    { [method |-> m, uri_absolute |-> TRUE, dns |-> d, body |-> b] :
      m \in {"PUT", "DELETE"},
      d \in {<<>>, <<base64_url_encode(<<0, 0, 0, 1, 0, 1, 97, 0, 1>>)>>},
      b \in {EmptyBody, BinaryBody(<<0, 0, 0, 1, 0, 1, 97, 0, 1>>)} }

Requests == PostRequests \cup GetRequests \cup OtherRequests

\* --------------------------------------------------------------------- state

VARIABLES
    hosts_file,      \* the bundled ./hosts file: absent, or its lines
    pc,              \* where the handling of the current request stands
    request,         \* Option: the request being handled
    message,         \* Option: the message decoded from the request
    decision,        \* "None", "Blocked" or "Allowed": the branch taken at the denylist
    response,        \* Option: the response message under construction
    results,         \* Option: what the awaited lookup returned
    http,            \* Option: the HTTP response returned by respond
    hosts_lookups,   \* number of HOSTS.contains calls made for the current request
    resolver_calls   \* number of RESOLVER.lookup calls made for the current request

vars == << hosts_file, pc, request, message, decision, response, results, http,
           hosts_lookups, resolver_calls >>

\* Lines of generated hosts files: "a" and the line spelling U+00E9 '.' 'a'.
HostsFiles ==
    { <<>>, << <<97>> >>, << <<233, DOT, 97>> >>, << <<97>>, <<233, DOT, 97>> >> }

\* read_lines("./hosts"): Err when the file cannot be opened.
read_lines(file) == [ok |-> file.present, lines |-> file.lines]

\* The HOSTS set: every line of the file, or empty when the file cannot be read.
HOSTS ==
    LET lines == read_lines(hosts_file)
    IN  IF lines.ok THEN {lines.lines[i] : i \in 1..Len(lines.lines)} ELSE {}

\* The kinds of error RESOLVER.lookup reports.  Proto wraps an error of the
\* protocol layer, whatever it is: a name that does not parse, or a failure of
\* the transport to the upstream server.
ResolveErrors ==
    [kind : {"NoRecordsFound", "Timeout", "Io", "Message"}, proto : {"None"}]
    \cup [kind : {"Proto"}, proto : {"MalformedName", "Io"}]

\* What RESOLVER.lookup may return: Ok with a non-empty record sequence, or Err.
LookupResults ==
    { [ok |-> TRUE, records |-> r, kind |-> "None", proto |-> "None"] :
      r \in SeqsUpTo(Records, MaxRecords) \ {<<>>} }
    \cup { [ok |-> FALSE, records |-> <<>>, kind |-> e.kind, proto |-> e.proto] :
           e \in ResolveErrors }

HttpResponse(status, content_type, body) ==
    [status |-> status, content_type |-> content_type, body |-> body]

Init ==
    /\ hosts_file \in {[present |-> FALSE, lines |-> <<>>]}
                      \cup {[present |-> TRUE, lines |-> l] : l \in HostsFiles}
    /\ pc = "Idle"
    /\ request = <<>>
    /\ message = <<>>
    /\ decision = "None"
    /\ response = <<>>
    /\ results = <<>>
    /\ http = <<>>
    /\ hosts_lookups = 0
    /\ resolver_calls = 0

\* ------------------------------------------------------------------- decoding

BadRequest(msg) == [ok |-> FALSE, bad_request |-> TRUE, text |-> msg]
OtherError == [ok |-> FALSE, bad_request |-> FALSE, text |-> ""]
OkMessage(m) == [ok |-> TRUE, message |-> m]

message_from_get(req) ==
    IF ~req.uri_absolute THEN OtherError
    ELSE IF req.dns = <<>> THEN BadRequest("Missing 'dns' query string parameter")
    ELSE LET payload == base64_url_decode(req.dns[1])
         IN  IF ~payload.ok THEN BadRequest("Invalid DNS message")
             ELSE LET parsed == from_bytes(payload.payload)
                  IN  IF parsed.ok THEN OkMessage(parsed.message)
                      ELSE BadRequest("Invalid DNS message")

message_from_post(req) ==
    CASE req.body.kind = "Empty" -> BadRequest("Empty body")
      [] req.body.kind = "Text" -> BadRequest("Text body")
      [] req.body.kind = "Binary" ->
            LET parsed == from_bytes(req.body.bytes)
            IN  IF parsed.ok THEN OkMessage(parsed.message)
                ELSE BadRequest("Invalid DNS message")

\* format!("Bad request: {}", err.message())
FormatBadRequest(msg) ==
    CASE msg = "Missing 'dns' query string parameter" ->
            "Bad request: Missing 'dns' query string parameter"
      [] msg = "Invalid DNS message" -> "Bad request: Invalid DNS message"
      [] msg = "Empty body" -> "Bad request: Empty body"
      [] msg = "Text body" -> "Bad request: Text body"

\* The runtime hands a request to respond.
Receive ==
    /\ pc = "Idle"
    /\ \E req \in Requests : request' = <<req>>
    /\ pc' = "Received"
    /\ UNCHANGED << hosts_file, message, decision, response, results, http,
                    hosts_lookups, resolver_calls >>

\* A method other than GET and POST treated as POST.
DecodeRequest_PostFallback(req) ==
    IF req.method = "GET"
    THEN [supported |-> TRUE, result |-> message_from_get(req)]
    ELSE [supported |-> TRUE, result |-> message_from_post(req)]

\* The match on the request's method: GET and POST are decoded, any other
\* method is not supported.
DecodeRequest(req) ==
    CASE req.method = "GET" -> [supported |-> TRUE, result |-> message_from_get(req)]
      [] req.method = "POST" -> [supported |-> TRUE, result |-> message_from_post(req)]
      [] OTHER -> [supported |-> FALSE, result |-> OtherError]

\* respond up to the decoded message: the method dispatch and the handling of
\* a decode error.
Decode ==
    /\ pc = "Received"
    /\ LET decoded == DecodeRequest(request[1])
       IN  IF ~decoded.supported
           THEN /\ http' = << HttpResponse(405, "", EmptyBody) >>
                /\ pc' = "Responded"
                /\ message' = message
           ELSE IF decoded.result.ok
           THEN /\ message' = << decoded.result.message >>
                /\ pc' = "Decoded"
                /\ http' = http
           ELSE /\ message' = message
                /\ pc' = "Responded"
                /\ http' = IF decoded.result.bad_request
                           THEN << HttpResponse(400, "",
                                     TextBody(FormatBadRequest(decoded.result.text))) >>
                           ELSE << HttpResponse(500, "", EmptyBody) >>
    /\ UNCHANGED << hosts_file, request, decision, response, results,
                    hosts_lookups, resolver_calls >>

\* ------------------------------------------------------------------ filtering

\* The domain with its last period removed, as respond computes it: the index
\* handed to String::remove is the number of chars less one.
domain_without_last_period(domain) ==
    IF Len(domain) > 0 /\ domain[Len(domain)] = DOT
    THEN StringRemove(domain, CharsCount(domain) - 1)
    ELSE [panic |-> FALSE, str |-> domain]

\* The clone marked as a response, the recursion-available flag left as it was.
NewResponse_KeepsRecursionFlag(m) ==
    [m EXCEPT !.message_type = "Response"]

\* The response as first set up: a clone of the message, marked as a response
\* with recursion available.
NewResponse(m) ==
    [m EXCEPT !.message_type = "Response", !.recursion_available = TRUE]

\* respond from the decoded message to the denylist decision: the first
\* question, its domain, the clone, and either the NXDomain of a blocked domain
\* or the call of the resolver.  Indexing an empty question section panics.
Filter ==
    /\ pc = "Decoded"
    /\ LET m == message[1]
       IN  IF m.queries = <<>>
           THEN /\ pc' = "Panicked"
                /\ UNCHANGED << response, decision, hosts_lookups, resolver_calls >>
           ELSE LET query == m.queries[1]
                    domain == to_utf8(query.name)
                    stripped == domain_without_last_period(domain)
                IN  IF stripped.panic
                    THEN /\ pc' = "Panicked"
                         /\ UNCHANGED << response, decision, hosts_lookups, resolver_calls >>
                    ELSE /\ hosts_lookups' = hosts_lookups + 1
                         /\ IF stripped.str \in HOSTS
                            THEN /\ response' = << [NewResponse(m) EXCEPT
                                                      !.response_code = "NXDomain"] >>
                                 /\ decision' = "Blocked"
                                 /\ pc' = "Synthesizing"
                                 /\ resolver_calls' = resolver_calls
                            ELSE /\ response' = << NewResponse(m) >>
                                 /\ decision' = "Allowed"
                                 /\ pc' = "Resolving"
                                 /\ resolver_calls' = resolver_calls + 1
    /\ UNCHANGED << hosts_file, request, message, results, http >>

\* ------------------------------------------------------------------ resolving

\* How respond treats what the lookup returned: the records are answered, the
\* error kinds NoRecordsFound and Proto become NXDomain, any other kind fails.
LookupOutcome(res) ==
    IF res.ok THEN "Answered"
    ELSE IF res.kind = "NoRecordsFound" THEN "NxMapped"
    ELSE IF res.kind = "Proto" THEN "NxMapped"
    ELSE "Failed"

\* The awaited lookup returns and respond matches on it.
Resolve ==
    /\ pc = "Resolving"
    /\ \E res \in LookupResults :
         /\ results' = << res >>
         /\ LET outcome == LookupOutcome(res)
            IN  CASE outcome = "Answered" ->
                       /\ response' = << [response[1] EXCEPT
                                            !.answers = response[1].answers \o res.records] >>
                       /\ pc' = "Synthesizing"
                       /\ http' = http
                  [] outcome = "NxMapped" ->
                       /\ response' = << [response[1] EXCEPT !.response_code = "NXDomain"] >>
                       /\ pc' = "Synthesizing"
                       /\ http' = http
                  [] outcome = "Failed" ->
                       /\ response' = response
                       /\ pc' = "Responded"
                       /\ http' = << HttpResponse(500, "", EmptyBody) >>
    /\ UNCHANGED << hosts_file, request, message, decision, hosts_lookups, resolver_calls >>

\* --------------------------------------------------------------- synthesizing

\* respond serializes the response and returns it.
Synthesize ==
    /\ pc = "Synthesizing"
    /\ http' = << HttpResponse(200, "application/dns-message",
                               BinaryBody(to_bytes(response[1]))) >>
    /\ pc' = "Responded"
    /\ UNCHANGED << hosts_file, request, message, decision, response, results,
                    hosts_lookups, resolver_calls >>

\* The runtime delivers the outcome and waits for the next request.
Return ==
    /\ pc \in {"Responded", "Panicked"}
    /\ pc' = "Idle"
    /\ request' = <<>>
    /\ message' = <<>>
    /\ decision' = "None"
    /\ response' = <<>>
    /\ results' = <<>>
    /\ http' = <<>>
    /\ hosts_lookups' = 0
    /\ resolver_calls' = 0
    /\ UNCHANGED hosts_file

Next == Receive \/ Decode \/ Filter \/ Resolve \/ Synthesize \/ Return

Spec == Init /\ [][Next]_vars

\* --------------------------------------------------------------------- claims

Terminal == pc \in {"Responded", "Panicked"}

\* The octets the request offers as its DNS message, when it offers any.
RequestPayload ==
    LET req == request[1]
    IN  IF req.method = "POST" /\ req.body.kind = "Binary"
        THEN [ok |-> TRUE, payload |-> req.body.bytes]
        ELSE IF req.method = "GET" /\ req.dns # <<>>
        THEN base64_url_decode(req.dns[1])
        ELSE [ok |-> FALSE, payload |-> <<>>]

\* The request is a GET or POST whose payload parses as a DNS message.
ParsableQuery ==
    /\ request # <<>>
    /\ request[1].method \in {"GET", "POST"}
    /\ RequestPayload.ok
    /\ from_bytes(RequestPayload.payload).ok

\* The message the request carries (of a parsable query).
RequestMessage == from_bytes(RequestPayload.payload).message

HasQuestion == ParsableQuery /\ RequestMessage.queries # <<>>

\* A name's text with exactly one trailing root-label dot removed.
StripRootDot(text) ==
    IF text # <<>> /\ text[Len(text)] = DOT THEN SubSeq(text, 1, Len(text) - 1) ELSE text

\* The first question's domain as the denylist spells it.
FirstDomain == StripRootDot(to_utf8(RequestMessage.queries[1].name))

Status == http[1].status

\* The DNS message carried by the HTTP response.
Sent == from_bytes(http[1].body.bytes)

\* C1: a parsable query whose first question names a denylisted domain is
\* answered with HTTP 200, response code NXDOMAIN and an empty answer section.
C1_DenylistedIsNxdomainEmpty ==
    (Terminal /\ HasQuestion /\ FirstDomain \in HOSTS)
    => /\ pc = "Responded"
       /\ Status = 200
       /\ Sent.ok
       /\ Sent.message.response_code = "NXDomain"
       /\ Sent.message.answers = <<>>

\* C2: when the first question's domain is not denylisted and the lookup
\* succeeds with records R, the response has the success code and its answer
\* section is exactly R.
C2_AnswerSectionIsExactlyR ==
    (pc = "Responded" /\ HasQuestion /\ FirstDomain \notin HOSTS
       /\ results # <<>> /\ results[1].ok)
    => /\ Status = 200
       /\ Sent.ok
       /\ Sent.message.response_code = "NoError"
       /\ Sent.message.answers = results[1].records

\* C3: every HTTP 200 response carries a message with the request's transaction
\* id and first question, of type response, with recursion available, and has
\* Content-Type application/dns-message.
C3_ResponseEchoesRequest ==
    (http # <<>> /\ Status = 200)
    => /\ HasQuestion
       /\ Sent.ok
       /\ Sent.message.id = RequestMessage.id
       /\ Sent.message.queries # <<>>
       /\ Sent.message.queries[1] = RequestMessage.queries[1]
       /\ Sent.message.message_type = "Response"
       /\ Sent.message.recursion_available
       /\ http[1].content_type = "application/dns-message"

\* An ordinary query (id 1, QR and RA clear) was answered from upstream.
C3_Witness ==
    /\ http # <<>> /\ Status = 200
    /\ ParsableQuery
    /\ RequestMessage.id = 1
    /\ RequestMessage.message_type = "Query"
    /\ ~RequestMessage.recursion_available
    /\ decision = "Allowed"
    /\ results # <<>> /\ results[1].ok

\* C4: every decode failure of a GET or POST request ends in HTTP 400 with a
\* reason in the body; none is reported as 500.
C4_DecodeFailureIs400 ==
    (Terminal /\ request[1].method \in {"GET", "POST"} /\ message = <<>>)
    => /\ pc = "Responded"
       /\ Status = 400
       /\ http[1].body.kind = "Text"

\* C5: a request whose method is neither GET nor POST gets HTTP 405 with an empty
\* body, and nothing else happens for it: no decoding, no denylist lookup, no
\* resolver call.
C5_OtherMethodIs405 ==
    (request # <<>> /\ request[1].method \notin {"GET", "POST"})
    => /\ pc \in {"Received", "Responded"}
       /\ pc = "Responded" => (Status = 405 /\ http[1].body = EmptyBody)
       /\ message = <<>>
       /\ decision = "None"
       /\ response = <<>>
       /\ results = <<>>
       /\ hosts_lookups = 0
       /\ resolver_calls = 0

\* A PUT carrying a well-formed query in its body was answered.
C5_Witness ==
    /\ pc = "Responded"
    /\ request[1].method = "PUT"
    /\ request[1].body.kind = "Binary"
    /\ from_bytes(request[1].body.bytes).ok
    /\ Status = 405

\* The lookup reported that the name has no records, or that it is malformed.
ReportedNotFound == ~results[1].ok /\ results[1].kind = "NoRecordsFound"
ReportedMalformedName ==
    ~results[1].ok /\ results[1].kind = "Proto" /\ results[1].proto = "MalformedName"

\* C6: a lookup that fails with anything but 'no records found' or 'malformed
\* name' ends in HTTP 500 with an empty body; no DNS message is sent.
C6_TransientFailureIs500 ==
    (results # <<>> /\ ~results[1].ok /\ ~ReportedNotFound /\ ~ReportedMalformedName)
    => /\ pc = "Responded"
       /\ Status = 500
       /\ http[1].body = EmptyBody
       /\ http[1].content_type = ""

\* What the same request receives when its domain is on the denylist.
BlockedBytes == to_bytes([NewResponse(RequestMessage) EXCEPT !.response_code = "NXDomain"])

\* C7: a lookup reporting NotFound or MalformedName ends in HTTP 200 with
\* NXDOMAIN and an empty answer section, in the very bytes a denylist hit gives.
C7_NxMappedLooksBlocked ==
    (pc = "Responded" /\ results # <<>> /\ (ReportedNotFound \/ ReportedMalformedName))
    => /\ Status = 200
       /\ Sent.ok
       /\ Sent.message.response_code = "NXDomain"
       /\ Sent.message.answers = <<>>
       /\ http[1].body.bytes = BlockedBytes

\* C8: the resolver is called at most once per request: once when the request
\* decodes and its domain is not denylisted, only after the denylist said so,
\* and never when the request ends in 405, 400 or a denylist hit.
C8_OneResolverCall ==
    /\ resolver_calls <= 1
    /\ resolver_calls = 1 => (hosts_lookups = 1 /\ decision = "Allowed")
    /\ (Terminal /\ HasQuestion /\ message # <<>> /\ FirstDomain \notin HOSTS)
       => resolver_calls = 1
    /\ (pc = "Responded" /\ (Status \in {400, 405} \/ decision = "Blocked"))
       => resolver_calls = 0

\* C9: the handling of every request ends with exactly one HTTP response, of
\* status 200, 400, 405 or 500.
C9_EveryRequestResponds ==
    /\ pc # "Panicked"
    /\ pc = "Responded" => (http # <<>> /\ Status \in {200, 400, 405, 500})

\* C10: a decoded message is Blocked exactly when its first question's name,
\* one trailing dot removed, is on the denylist, whatever further questions
\* it has.
C10_BlockedIffFirstDomainListed ==
    (message # <<>> /\ HasQuestion /\ pc \in {"Resolving", "Synthesizing", "Responded"})
    => (decision = "Blocked" <=> FirstDomain \in HOSTS)

====
